---- MODULE Spec2Model ----
(***************************************************************************)
(* Depth subsystem of xrblocks (class Depth): client registry, per-frame   *)
(* ingestion (updateLocalDepth, updateCPUDepthData, updateGPUDepthData,    *)
(* updateDepthMatrices) and the queries getDepth / getVertex.              *)
(* Beside it: DetectedMesh (rebuild on a changed timestamp), the           *)
(* WalkthroughManager crossfade, and the Raycaster with its default sort   *)
(* function.  Each component has a variable of its own; the specifications *)
(* of one component leave the variables of the others as they start.       *)
(*                                                                         *)
(* Conventions.                                                            *)
(*  - A JavaScript array is a sequence; JS index i is sequence index i+1.  *)
(*    A hole / undefined / null entry is None (<<>>), a present entry x    *)
(*    is Some(x) (<<x>>).                                                  *)
(*  - A 4x4 matrix is abstracted to an element of the (non-commutative)    *)
(*    group of permutations of 1..3: product, inverse and identity are     *)
(*    computed, so projection * view differs from view * projection.       *)
(*  - rawValueToMeters is a fixed-point number with denominator R2MDen;    *)
(*    a depth in meters is likewise a numerator over R2MDen.               *)
(*  - u and v are rationals with denominator UVDen.                        *)
(*  - An ArrayBuffer is a sequence of bytes; a typed array over it is the  *)
(*    little-endian decoding of its 2-byte or 4-byte groups.  The element  *)
(*    value of a 4-byte group stands for the float it encodes.             *)
(***************************************************************************)
EXTENDS Integers, Sequences, FiniteSets, TLC

VARIABLES depth, session, options, ret, detected, manager, raycaster

vars == <<depth, session, options, ret, detected, manager, raycaster>>

----------------------------------------------------------------------------
(* Bounds *)

\* Number of distinct frame timestamps (a frame's samples carry its timestamp).
MaxTime == 2
\* Largest number of views in one viewer pose (1 = mono, 2 = stereo).
MaxViews == 2
\* Numerators of the u and v coordinates that are queried: -1/2 .. 3/2.
MaxUV == 3

(* Program constants *)
DEFAULT_DEPTH_WIDTH == 160
DEFAULT_DEPTH_HEIGHT == DEFAULT_DEPTH_WIDTH

(* Fixed-point scales of the model *)
R2MDen == 1000
UVDen == 2

Clients == {"c1", "c2"}
UVs == (0 - 1)..MaxUV

----------------------------------------------------------------------------
(* Optional values and JavaScript arrays *)

None == <<>>
Some(x) == <<x>>
IsSome(o) == Len(o) = 1
Val(o) == o[1]

Max2(a, b) == IF a >= b THEN a ELSE b
Min2(a, b) == IF a <= b THEN a ELSE b

\* arr[i]
At(arr, i) == IF i + 1 <= Len(arr) THEN arr[i + 1] ELSE None
\* arr[i] = x (extends the array with holes when i >= arr.length)
Put(arr, i, x) ==
  [j \in 1..Max2(Len(arr), i + 1) |->
     IF j = i + 1 THEN Some(x) ELSE IF j <= Len(arr) THEN arr[j] ELSE None]

----------------------------------------------------------------------------
(* Matrices (THREE.Matrix4), vectors and quaternions *)

Identity == <<1, 2, 3>>
Mats == {<<1, 2, 3>>, <<1, 3, 2>>, <<2, 1, 3>>, <<2, 3, 1>>, <<3, 1, 2>>, <<3, 2, 1>>}
\* a x b
Multiply(a, b) == [i \in 1..3 |-> a[b[i]]]
Invert(a) == CHOOSE b \in Mats : Multiply(a, b) = Identity
ZeroVector == <<0, 0, 0>>
IdentityQuaternion == <<0, 0, 0, 1>>

----------------------------------------------------------------------------
(* ArrayBuffers and typed arrays *)

RECURSIVE Pow256(_)
Pow256(n) == IF n = 0 THEN 1 ELSE 256 * Pow256(n - 1)

\* Bytes per element of the depth buffer the session delivers.
ElementSize(format) == IF format = "float32" THEN 4 ELSE 2

\* The ArrayBuffer holding the given element values, little-endian.
Encode(values, size) ==
  [b \in 1..(Len(values) * size) |->
     (values[((b - 1) \div size) + 1] \div Pow256((b - 1) % size)) % 256]

RECURSIVE GroupValue(_, _, _)
GroupValue(bytes, first, size) ==
  IF size = 0 THEN 0
  ELSE bytes[first] + 256 * GroupValue(bytes, first + 1, size - 1)

\* new Float32Array(buffer) / new Uint16Array(buffer): the elements of the
\* buffer read as 4-byte / 2-byte groups.
TypedArray(useFloat32, bytes) ==
  LET size == IF useFloat32 THEN 4 ELSE 2
  IN [i \in 1..(Len(bytes) \div size) |-> GroupValue(bytes, (i - 1) * size + 1, size)]

----------------------------------------------------------------------------
(* What the session / frame collaborator delivers *)

\* Kinds of per-view depth samples.  Kind 1: 4x4, every raw value 1000,
\* rawValueToMeters 0.001, with a session-provided projection and transform.
\* Kind 2: 2x3, raw values that differ per pixel and per frame,
\* rawValueToMeters 0.002, without projection and transform (render-camera
\* fallback).  Kind 3: as kind 2 but with a projection matrix and still no
\* transform, rawValueToMeters 0.003.  Frames deliver kinds 1 and 2; kind 3
\* is passed by direct callers of updateCPUDepthData / updateGPUDepthData.
SampleKinds == {1, 2}
AnyKinds == SampleKinds \cup {3}
Times == 1..MaxTime
Formats == {"float32", "luminance-alpha"}
SampleWidth(kind) == IF kind = 1 THEN 4 ELSE 2
SampleHeight(kind) == IF kind = 1 THEN 4 ELSE 3
SampleValues(kind, t) ==
  IF kind = 1 THEN [i \in 1..16 |-> 1000] ELSE [i \in 1..6 |-> 10 * t + i]

\* XRCPUDepthInformation / XRWebGLDepthInformation of one view in the frame
\* at time t.  For the GPU form, data stands for the texture's contents.
NewSample(kind, t, format) ==
  [time |-> t,
   width |-> SampleWidth(kind),
   height |-> SampleHeight(kind),
   rawValueToMeters |-> kind,
   data |-> Encode(SampleValues(kind, t), ElementSize(format)),
   hasProjection |-> (kind \in {1, 3}),
   hasTransform |-> (kind = 1),
   projectionMatrix |-> IF kind = 1 THEN <<2, 1, 3>>
                        ELSE IF kind = 3 THEN <<3, 1, 2>> ELSE Identity,
   transformInverse |-> IF kind = 1 THEN <<2, 3, 1>> ELSE Identity,
   position |-> IF kind = 1 THEN <<1, 0, 0>> ELSE ZeroVector,
   orientation |-> IF kind = 1 THEN <<0, 1, 0, 0>> ELSE IdentityQuaternion]

\* Every sample the session can deliver.
Samples ==
  [kind \in AnyKinds, t \in Times, format \in Formats |-> NewSample(kind, t, format)]

\* A reference to a sample object, and the object it refers to.  The Depth
\* fields hold references; the session never changes a delivered sample.
Ref(kind, t, format) == [kind |-> kind, time |-> t, format |-> format]
Info(ref) == Samples[ref.kind, ref.time, ref.format]

\* The typed array over the buffer of every sample (TypedArray, tabulated).
ArrayViews ==
  [useFloat32 \in BOOLEAN, kind \in AnyKinds, t \in Times, format \in Formats |->
     TypedArray(useFloat32, Samples[kind, t, format].data)]
ArrayView(useFloat32, ref) == ArrayViews[useFloat32, ref.kind, ref.time, ref.format]

\* frame.getDepthInformation(view) / binding.getDepthInformation(view):
\* nothing when the frame has no depth for the view (kind 0).
getDepthInformation(kind, t, format) ==
  IF kind = 0 THEN None ELSE Some(Ref(kind, t, format))

\* renderer.xr.getCamera().cameras: one camera, so view 1 falls back to the
\* main camera.
XRCameras ==
  << [projectionMatrix |-> <<1, 3, 2>>, matrixWorldInverse |-> <<3, 1, 2>>,
      position |-> <<0, 1, 0>>, quaternion |-> <<1, 0, 0, 0>>] >>
MainCamera ==
  [projectionMatrix |-> <<3, 2, 1>>, matrixWorldInverse |-> <<2, 1, 3>>,
   position |-> <<0, 0, 1>>, quaternion |-> <<0, 0, 1, 0>>]

\* A frame: its timestamp, whether a reference space and a viewer pose exist,
\* and per view the kind of depth sample (0: getDepthInformation returns
\* nothing).
ViewSeqs(set) == UNION {[1..n -> set] : n \in 1..MaxViews}
Frames ==
  {[time |-> t, refSpace |-> rs, pose |-> FALSE, views |-> <<>>] :
     t \in Times, rs \in BOOLEAN} \cup
  {[time |-> t, refSpace |-> TRUE, pose |-> TRUE, views |-> vs] :
     t \in Times, vs \in ViewSeqs(SampleKinds \cup {0})}

----------------------------------------------------------------------------
(* class Depth *)

\* The fields of a freshly constructed and initialised Depth.
NewDepth(opts) ==
  [view |-> <<>>,
   cpuDepthData |-> <<>>,
   gpuDepthData |-> <<>>,
   depthArray |-> <<>>,
   depthMesh |-> IF opts.depthMesh
                 THEN Some([position |-> ZeroVector, quaternion |-> IdentityQuaternion,
                            source |-> "none", time |-> 0,
                            projectionInverse |-> Identity])
                 ELSE None,
   depthTextures |-> <<>>,
   width |-> DEFAULT_DEPTH_WIDTH,
   height |-> DEFAULT_DEPTH_HEIGHT,
   depthClientsInitialized |-> FALSE,
   depthClients |-> {},
   depthProjectionMatrices |-> <<>>,
   depthProjectionInverseMatrices |-> <<>>,
   depthViewMatrices |-> <<>>,
   depthViewProjectionMatrices |-> <<>>,
   depthCameraPositions |-> <<>>,
   depthCameraRotations |-> <<>>,
   log |-> <<>>]

\* The steps of the call in progress, in the order the code takes them: each
\* write or collaborator call of the ingestion code appends its step and the
\* view it is for.  The log is empty between calls; the caller is handed it.
Step(name, viewId) == [step |-> name, view |-> viewId]
Logged(d, name, viewId) == [d EXCEPT !.log = Append(@, Step(name, viewId))]

\* Appends n copies of x.
Grow(arr, n, x) == arr \o [j \in 1..n |-> x]

CameraFor(viewId) ==
  IF viewId + 1 <= Len(XRCameras) THEN XRCameras[viewId + 1] ELSE MainCamera

\* Mutant: the arrays are resized to viewId + 1 entries (arr.length =
\* viewId + 1), which drops the entries of later views.
EnsureCapacityExact(d, viewId) ==
  LET Resize(arr, x) == [j \in 1..(viewId + 1) |-> IF j <= Len(arr) THEN arr[j] ELSE x]
  IN [d EXCEPT !.depthViewMatrices = Resize(@, Identity),
               !.depthViewProjectionMatrices = Resize(@, Identity),
               !.depthProjectionMatrices = Resize(@, Identity),
               !.depthProjectionInverseMatrices = Resize(@, Identity),
               !.depthCameraPositions = Resize(@, ZeroVector),
               !.depthCameraRotations = Resize(@, IdentityQuaternion)]

\* while (viewId >= this.depthViewMatrices.length) push a default entry to
\* each of the six arrays.
EnsureCapacity(d, viewId) ==
  LET n == Max2(0, viewId + 1 - Len(d.depthViewMatrices))
  IN [d EXCEPT !.depthViewMatrices = Grow(@, n, Identity),
               !.depthViewProjectionMatrices = Grow(@, n, Identity),
               !.depthProjectionMatrices = Grow(@, n, Identity),
               !.depthProjectionInverseMatrices = Grow(@, n, Identity),
               !.depthCameraPositions = Grow(@, n, ZeroVector),
               !.depthCameraRotations = Grow(@, n, IdentityQuaternion)]

\* Mutant: each field is taken from the sample when the sample has it and
\* from the camera otherwise.
TransformSourceMixed(depthData, viewId) ==
  LET info == Info(depthData)
      camera == CameraFor(viewId)
  IN [projection |-> IF info.hasProjection THEN info.projectionMatrix
                     ELSE camera.projectionMatrix,
      viewMatrix |-> IF info.hasTransform THEN info.transformInverse
                     ELSE camera.matrixWorldInverse,
      position |-> IF info.hasTransform THEN info.position ELSE camera.position,
      rotation |-> IF info.hasTransform THEN info.orientation ELSE camera.quaternion]

\* Projection, view matrix and camera pose for the view: from the sample
\* when it has both a projection matrix and a transform, else from the
\* render camera of the view (the main camera when there is none).
TransformSource(depthData, viewId) ==
  LET info == Info(depthData)
      camera == CameraFor(viewId)
  IN IF info.hasProjection /\ info.hasTransform
     THEN [projection |-> info.projectionMatrix,
           viewMatrix |-> info.transformInverse,
           position |-> info.position,
           rotation |-> info.orientation]
     ELSE [projection |-> camera.projectionMatrix,
           viewMatrix |-> camera.matrixWorldInverse,
           position |-> camera.position,
           rotation |-> camera.quaternion]

\* Mutant: the operands of the view-projection product are swapped.
RecomputeSwapped(d, viewId) ==
  [d EXCEPT
     !.depthProjectionInverseMatrices[viewId + 1] =
        Invert(d.depthProjectionMatrices[viewId + 1]),
     !.depthViewProjectionMatrices[viewId + 1] =
        Multiply(d.depthViewMatrices[viewId + 1], d.depthProjectionMatrices[viewId + 1])]

\* The inverse projection and the view-projection product of the view,
\* from the projection and view matrix just set.
Recompute(d, viewId) ==
  [d EXCEPT
     !.depthProjectionInverseMatrices[viewId + 1] =
        Invert(d.depthProjectionMatrices[viewId + 1]),
     !.depthViewProjectionMatrices[viewId + 1] =
        Multiply(d.depthProjectionMatrices[viewId + 1], d.depthViewMatrices[viewId + 1])]

updateDepthMatrices(d, depthData, viewId) ==
  LET e == EnsureCapacity(d, viewId)
      from == TransformSource(depthData, viewId)
      f == [e EXCEPT !.depthProjectionMatrices[viewId + 1] = from.projection,
                     !.depthViewMatrices[viewId + 1] = from.viewMatrix,
                     !.depthCameraPositions[viewId + 1] = from.position,
                     !.depthCameraRotations[viewId + 1] = from.rotation]
  IN Logged(Recompute(f, viewId), "matrices", viewId)

\* depthTextures.updateData / updateNativeTexture: the texture of the view
\* now shows the given sample.
UpdateTexture(d, opts, depthData, viewId) ==
  IF opts.depthTexture
  THEN Logged([d EXCEPT !.depthTextures = Put(@, viewId, Info(depthData).time)],
              "texture", viewId)
  ELSE d

\* Mutant: the depth mesh is updated for every view (viewId == 0 is not
\* checked).
UpdateMeshEveryView(d, opts, source, t, viewId) ==
  IF opts.depthMesh /\ IsSome(d.depthMesh)
  THEN Logged([d EXCEPT !.depthMesh =
                 Some([position |-> d.depthCameraPositions[1],
                       quaternion |-> d.depthCameraRotations[1],
                       source |-> source, time |-> t,
                       projectionInverse |-> d.depthProjectionInverseMatrices[1]])],
              "mesh", viewId)
  ELSE d

\* depthMesh.updateDepth / updateGPUDepth followed by the pose copy, for
\* view 0 only.
UpdateMesh(d, opts, source, t, viewId) ==
  IF opts.depthMesh /\ IsSome(d.depthMesh) /\ viewId = 0
  THEN Logged([d EXCEPT !.depthMesh =
                 Some([position |-> d.depthCameraPositions[1],
                       quaternion |-> d.depthCameraRotations[1],
                       source |-> source, time |-> t,
                       projectionInverse |-> d.depthProjectionInverseMatrices[1]])],
              "mesh", viewId)
  ELSE d

updateCPUDepthData(d, opts, depthData, viewId) ==
  LET d1 == Logged([d EXCEPT !.cpuDepthData = Put(@, viewId, depthData)],
                   "cpuDepthData", viewId)
      d2 == updateDepthMatrices(d1, depthData, viewId)
      d3 == Logged([d2 EXCEPT
                      !.depthArray =
                         Put(@, viewId, ArrayView(opts.useFloat32, depthData)),
                      !.width = Info(depthData).width,
                      !.height = Info(depthData).height],
                   "depthArray", viewId)
      d4 == UpdateTexture(d3, opts, depthData, viewId)
  IN [d |-> UpdateMesh(d4, opts, "cpu", Info(depthData).time, viewId),
      threw |-> FALSE]

\* depthMesh.convertGPUToGPU(depthData): a CPU buffer read back from the
\* texture, or nothing when the conversion is unavailable on the platform.
convertGPUToGPU(depthData, available) ==
  IF available
  THEN Some([width |-> Info(depthData).width, height |-> Info(depthData).height,
             data |-> depthData])
  ELSE None

\* TypedArray.prototype.set(source): overwrites the first Len(source)
\* elements (the caller has checked that source fits).
SetPrefix(target, source) ==
  [i \in 1..Len(target) |-> IF i <= Len(source) THEN source[i] ELSE target[i]]

\* Mutant: the call returns when the conversion yields nothing, before the
\* texture and the mesh are updated.
updateGPUDepthDataSkips(d, opts, depthData, viewId, available) ==
  LET d1 == Logged([d EXCEPT !.gpuDepthData = Put(@, viewId, depthData)],
                   "gpuDepthData", viewId)
      d2 == updateDepthMatrices(d1, depthData, viewId)
      needCpuDepth == opts.depthMesh
      converts == needCpuDepth /\ IsSome(d.depthMesh)
      cpuDepth == IF converts THEN convertGPUToGPU(depthData, available) ELSE None
      dc == IF converts THEN Logged(d2, "convertGPUToGPU", viewId) ELSE d2
      source == ArrayView(opts.useFloat32, Val(cpuDepth).data)
      existing == At(d2.depthArray, viewId)
      \* set() raises a RangeError when the source is longer than the target.
      rangeError == IsSome(cpuDepth) /\ IsSome(existing)
                    /\ Len(source) > Len(Val(existing))
      d3 == IF ~IsSome(cpuDepth) THEN dc
            ELSE IF ~IsSome(existing)
            THEN Logged([dc EXCEPT !.depthArray = Put(@, viewId, source),
                                   !.width = Val(cpuDepth).width,
                                   !.height = Val(cpuDepth).height],
                        "depthArray", viewId)
            ELSE Logged([dc EXCEPT !.depthArray =
                           Put(@, viewId, SetPrefix(Val(existing), source))],
                        "depthArray", viewId)
      d4 == UpdateTexture(d3, opts, depthData, viewId)
  IN IF ~IsSome(cpuDepth) THEN [d |-> dc, threw |-> FALSE]
     ELSE IF rangeError
     THEN [d |-> dc, threw |-> TRUE]
     ELSE [d |-> UpdateMesh(d4, opts, IF IsSome(cpuDepth) THEN "cpu" ELSE "gpu",
                            Info(depthData).time, viewId),
           threw |-> FALSE]

updateGPUDepthData(d, opts, depthData, viewId, available) ==
  LET d1 == Logged([d EXCEPT !.gpuDepthData = Put(@, viewId, depthData)],
                   "gpuDepthData", viewId)
      d2 == updateDepthMatrices(d1, depthData, viewId)
      needCpuDepth == opts.depthMesh
      converts == needCpuDepth /\ IsSome(d.depthMesh)
      cpuDepth == IF converts THEN convertGPUToGPU(depthData, available) ELSE None
      dc == IF converts THEN Logged(d2, "convertGPUToGPU", viewId) ELSE d2
      source == ArrayView(opts.useFloat32, Val(cpuDepth).data)
      existing == At(d2.depthArray, viewId)
      \* set() raises a RangeError when the source is longer than the target.
      rangeError == IsSome(cpuDepth) /\ IsSome(existing)
                    /\ Len(source) > Len(Val(existing))
      d3 == IF ~IsSome(cpuDepth) THEN dc
            ELSE IF ~IsSome(existing)
            THEN Logged([dc EXCEPT !.depthArray = Put(@, viewId, source),
                                   !.width = Val(cpuDepth).width,
                                   !.height = Val(cpuDepth).height],
                        "depthArray", viewId)
            ELSE Logged([dc EXCEPT !.depthArray =
                           Put(@, viewId, SetPrefix(Val(existing), source))],
                        "depthArray", viewId)
      d4 == UpdateTexture(d3, opts, depthData, viewId)
  IN IF rangeError
     THEN [d |-> dc, threw |-> TRUE]
     ELSE [d |-> UpdateMesh(d4, opts, IF IsSome(cpuDepth) THEN "cpu" ELSE "gpu",
                            Info(depthData).time, viewId),
           threw |-> FALSE]

----------------------------------------------------------------------------
(* updateLocalDepth *)

pausingDepthSupported(sess) == sess.depthActive # "undefined"

\* Mutant: the check of depthClientsInitialized is missing.
GatingAppliesUninitialized(d, sess) == pausingDepthSupported(sess)

\* The condition under which the client count governs sensing.
GatingApplies(d, sess) == pausingDepthSupported(sess) /\ d.depthClientsInitialized

\* Mutant: one particular client decides instead of the client count.
needsDepthFirstClient(d) == "c1" \in d.depthClients

needsDepth(d) == Cardinality(d.depthClients) > 0

\* Mutant: sensing is paused but never resumed.
SensingRequestNoResume(d, sess) ==
  IF GatingApplies(d, sess) /\ sess.depthActive = "true" /\ ~needsDepth(d)
  THEN "pause" ELSE "none"

\* The request updateLocalDepth makes to the session.
SensingRequest(d, sess) ==
  IF ~GatingApplies(d, sess) THEN "none"
  ELSE IF sess.depthActive = "true" /\ ~needsDepth(d) THEN "pause"
  ELSE IF sess.depthActive # "true" /\ needsDepth(d) THEN "resume"
  ELSE "none"

\* Mutant: the early return is missing.
EarlyExitMissing(d, sess) == FALSE

\* The empty-registry early exit.
EarlyExit(d, sess) == GatingApplies(d, sess) /\ Cardinality(d.depthClients) = 0

\* session.pauseDepthSensing() / session.resumeDepthSensing() as applied by
\* the session.
SessionAfter(sess, request) ==
  IF request = "pause" THEN [sess EXCEPT !.depthActive = "false"]
  ELSE IF request = "resume" THEN [sess EXCEPT !.depthActive = "true"]
  ELSE sess

\* The per-view loop, from view viewId on: the state it leaves, how it ended
\* and the view at which it ended.
\* Mutant: a view without depth data is skipped (continue) instead of ending
\* the frame (return).
RECURSIVE ProcessViewsContinue(_, _, _, _, _)
ProcessViewsContinue(d, sess, opts, frame, viewId) ==
  IF viewId >= Len(frame.views)
  THEN [d |-> d, exit |-> "done", k |-> viewId]
  ELSE
    LET d1 == Logged([d EXCEPT !.view = Put(@, viewId, [time |-> frame.time,
                                                        eye |-> viewId])],
                     "view", viewId)
        depthData == getDepthInformation(frame.views[viewId + 1], frame.time,
                                         sess.depthDataFormat)
        r == IF sess.depthUsage = "gpu-optimized"
             THEN updateGPUDepthData(d1, opts, Val(depthData), viewId,
                                     sess.gpuReadback)
             ELSE updateCPUDepthData(d1, opts, Val(depthData), viewId)
        rest == ProcessViewsContinue(IF IsSome(depthData) THEN r.d ELSE d1,
                                     sess, opts, frame, viewId + 1)
    IN IF ~IsSome(depthData)
       THEN [d |-> rest.d, exit |-> "missing", k |-> viewId]
       ELSE IF r.threw THEN [d |-> r.d, exit |-> "threw", k |-> viewId]
       ELSE rest

\* Mutant: the path is chosen by the data format of the session instead of
\* its depth usage.
RECURSIVE ProcessViewsByFormat(_, _, _, _, _)
ProcessViewsByFormat(d, sess, opts, frame, viewId) ==
  IF viewId >= Len(frame.views)
  THEN [d |-> d, exit |-> "done", k |-> viewId]
  ELSE
    LET d1 == Logged([d EXCEPT !.view = Put(@, viewId, [time |-> frame.time,
                                                        eye |-> viewId])],
                     "view", viewId)
        depthData == getDepthInformation(frame.views[viewId + 1], frame.time,
                                         sess.depthDataFormat)
        r == IF sess.depthDataFormat = "float32"
             THEN updateGPUDepthData(d1, opts, Val(depthData), viewId,
                                     sess.gpuReadback)
             ELSE updateCPUDepthData(d1, opts, Val(depthData), viewId)
    IN IF ~IsSome(depthData) THEN [d |-> d1, exit |-> "missing", k |-> viewId]
       ELSE IF r.threw THEN [d |-> r.d, exit |-> "threw", k |-> viewId]
       ELSE ProcessViewsByFormat(r.d, sess, opts, frame, viewId + 1)

RECURSIVE ProcessViews(_, _, _, _, _)
ProcessViews(d, sess, opts, frame, viewId) ==
  IF viewId >= Len(frame.views)
  THEN [d |-> d, exit |-> "done", k |-> viewId]
  ELSE
    LET d1 == Logged([d EXCEPT !.view = Put(@, viewId, [time |-> frame.time,
                                                        eye |-> viewId])],
                     "view", viewId)
        depthData == getDepthInformation(frame.views[viewId + 1], frame.time,
                                         sess.depthDataFormat)
        r == IF sess.depthUsage = "gpu-optimized"
             THEN updateGPUDepthData(d1, opts, Val(depthData), viewId,
                                     sess.gpuReadback)
             ELSE updateCPUDepthData(d1, opts, Val(depthData), viewId)
    IN IF ~IsSome(depthData) THEN [d |-> d1, exit |-> "missing", k |-> viewId]
       ELSE IF r.threw THEN [d |-> r.d, exit |-> "threw", k |-> viewId]
       ELSE ProcessViews(r.d, sess, opts, frame, viewId + 1)

\* Mutant: a frame without pose drops the depth arrays.
LocalDepthResultDropsArrays(d, sess, opts, frame) ==
  IF EarlyExit(d, sess) THEN [d |-> d, exit |-> "gated", k |-> 0]
  ELSE IF ~frame.refSpace THEN [d |-> d, exit |-> "noRefSpace", k |-> 0]
  ELSE IF ~frame.pose
  THEN [d |-> [d EXCEPT !.depthArray = <<>>], exit |-> "noPose", k |-> 0]
  ELSE ProcessViews(d, sess, opts, frame, 0)

\* The whole of updateLocalDepth on the Depth fields.
LocalDepthResult(d, sess, opts, frame) ==
  IF EarlyExit(d, sess) THEN [d |-> d, exit |-> "gated", k |-> 0]
  ELSE IF ~frame.refSpace THEN [d |-> d, exit |-> "noRefSpace", k |-> 0]
  ELSE IF ~frame.pose THEN [d |-> d, exit |-> "noPose", k |-> 0]
  ELSE ProcessViews(d, sess, opts, frame, 0)

\* What the last operation was and what its caller observed: for
\* updateLocalDepth how it ended, at which view, and its request to the
\* session; for resumeDepth / pauseDepth the client and whether the set
\* changed (the result of Set.add / Set.delete); for a query its arguments,
\* the index it read and its result; for an ingestion call also the steps
\* it took (log) and, when called for one view, that view.
NoRet ==
  [op |-> "none", exit |-> "none", request |-> "none",
   k |-> 0, threw |-> FALSE, client |-> "none",
   u |-> 0, v |-> 0, kind |-> "none", value |-> 0, index |-> 0,
   view |-> 0, log |-> <<>>]

\* The state after updateLocalDepth, given what it did to the Depth fields
\* (r) and what it asked of the session (request).
LocalDepthStep(r, request) ==
  /\ depth' = [r.d EXCEPT !.log = <<>>]
  /\ session' = SessionAfter(session, request)
  /\ ret' = [NoRet EXCEPT !.op = "updateLocalDepth", !.exit = r.exit,
                          !.request = request, !.k = r.k,
                          !.threw = (r.exit = "threw"),
                          !.log = r.d.log]
  /\ UNCHANGED <<options, detected, manager, raycaster>>

updateLocalDepth(frame) ==
  LocalDepthStep(LocalDepthResult(depth, session, options, frame),
                 SensingRequest(depth, session))

----------------------------------------------------------------------------
(* updateCPUDepthData / updateGPUDepthData called for one view *)

\* The caller passes a sample of the session's delivery mode for any view.
CallUpdateCPUDepthData(kind, t, viewId) ==
  /\ session.depthUsage # "gpu-optimized"
  /\ LET r == updateCPUDepthData(depth, options,
                                 Ref(kind, t, session.depthDataFormat), viewId)
     IN /\ depth' = [r.d EXCEPT !.log = <<>>]
        /\ ret' = [NoRet EXCEPT !.op = "updateCPUDepthData", !.view = viewId,
                                !.exit = IF r.threw THEN "threw" ELSE "done",
                                !.threw = r.threw, !.log = r.d.log]
  /\ UNCHANGED <<session, options, detected, manager, raycaster>>

CallUpdateGPUDepthData(kind, t, viewId) ==
  /\ session.depthUsage = "gpu-optimized"
  /\ LET r == updateGPUDepthData(depth, options,
                                 Ref(kind, t, session.depthDataFormat), viewId,
                                 session.gpuReadback)
     IN /\ depth' = [r.d EXCEPT !.log = <<>>]
        /\ ret' = [NoRet EXCEPT !.op = "updateGPUDepthData", !.view = viewId,
                                !.exit = IF r.threw THEN "threw" ELSE "done",
                                !.threw = r.threw, !.log = r.d.log]
  /\ UNCHANGED <<session, options, detected, manager, raycaster>>

----------------------------------------------------------------------------
(* Client registry *)

\* Mutant: removing one client clears the whole set.
pauseDepthClears(client) ==
  /\ depth' = [depth EXCEPT !.depthClientsInitialized = TRUE,
                            !.depthClients = {}]
  /\ ret' = [NoRet EXCEPT !.op = "pauseDepth", !.client = client,
                          !.kind = IF client \in depth.depthClients
                                   THEN "removed" ELSE "absent"]
  /\ UNCHANGED <<session, options, detected, manager, raycaster>>

resumeDepth(client) ==
  /\ depth' = [depth EXCEPT !.depthClientsInitialized = TRUE,
                            !.depthClients = @ \cup {client}]
  /\ ret' = [NoRet EXCEPT !.op = "resumeDepth", !.client = client,
                          !.kind = IF client \in depth.depthClients
                                   THEN "present" ELSE "added"]
  /\ UNCHANGED <<session, options, detected, manager, raycaster>>

pauseDepth(client) ==
  /\ depth' = [depth EXCEPT !.depthClientsInitialized = TRUE,
                            !.depthClients = @ \ {client}]
  /\ ret' = [NoRet EXCEPT !.op = "pauseDepth", !.client = client,
                          !.kind = IF client \in depth.depthClients
                                   THEN "removed" ELSE "absent"]
  /\ UNCHANGED <<session, options, detected, manager, raycaster>>

----------------------------------------------------------------------------
(* Queries *)

\* clamp(x, min, max) of utils.
clamp(x, lo, hi) == Min2(Max2(x, lo), hi)

\* Math.round of the non-negative rational num / UVDen (halves round up).
Round(num) == (2 * num + UVDen) \div (2 * UVDen)

\* Column and row of the pixel for (u, v) = (un / UVDen, vn / UVDen).
DepthX(d, un) == Round(clamp(un * d.width, 0, (d.width - 1) * UVDen))
DepthY(d, vn) == Round(clamp((UVDen - vn) * d.height, 0, (d.height - 1) * UVDen))
DepthIndex(d, un, vn) == DepthY(d, vn) * d.width + DepthX(d, un)

\* The rawValueToMeters getter (numerator over R2MDen); it raises a
\* TypeError when entry 0 of the non-empty list is a hole.
rawValueToMeters(d) ==
  IF Len(d.cpuDepthData) > 0
  THEN IF IsSome(d.cpuDepthData[1])
       THEN [threw |-> FALSE, value |-> Info(Val(d.cpuDepthData[1])).rawValueToMeters]
       ELSE [threw |-> TRUE, value |-> 0]
  ELSE IF Len(d.gpuDepthData) > 0
  THEN IF IsSome(d.gpuDepthData[1])
       THEN [threw |-> FALSE, value |-> Info(Val(d.gpuDepthData[1])).rawValueToMeters]
       ELSE [threw |-> TRUE, value |-> 0]
  ELSE [threw |-> FALSE, value |-> 0]

\* The depth read for (u, v) once depthArray[0] exists: the product of the
\* scale and the element at the index, NaN when the index is outside the
\* array (the element is undefined).
ScaledDepth(d, un, vn) ==
  LET arr == Val(d.depthArray[1])
      index == DepthIndex(d, un, vn)
      scale == rawValueToMeters(d)
  IN IF scale.threw THEN [kind |-> "throw", value |-> 0, index |-> index]
     ELSE IF index + 1 > Len(arr) THEN [kind |-> "NaN", value |-> 0, index |-> index]
     ELSE [kind |-> "number", value |-> scale.value * arr[index + 1], index |-> index]

\* Mutant: the check for a missing depthArray[0] is gone, so the element read
\* raises a TypeError.
getDepthResultUnguarded(d, un, vn) ==
  IF ~IsSome(At(d.depthArray, 0)) THEN [kind |-> "throw", value |-> 0, index |-> 0]
  ELSE ScaledDepth(d, un, vn)

getDepthResult(d, un, vn) ==
  IF ~IsSome(At(d.depthArray, 0)) THEN [kind |-> "number", value |-> 0, index |-> 0]
  ELSE ScaledDepth(d, un, vn)

\* getVertex returns null or a vector; the vector is kept as the depth it
\* was scaled to.
getVertexResult(d, un, vn) ==
  IF ~IsSome(At(d.depthArray, 0)) THEN [kind |-> "null", value |-> 0, index |-> 0]
  ELSE LET r == ScaledDepth(d, un, vn)
       IN IF r.kind = "number" THEN [r EXCEPT !.kind = "vector"] ELSE r

getDepth(un, vn) ==
  /\ LET r == getDepthResult(depth, un, vn)
     IN ret' = [NoRet EXCEPT !.op = "getDepth", !.u = un, !.v = vn,
                             !.kind = r.kind, !.value = r.value, !.index = r.index,
                             !.threw = (r.kind = "throw")]
  /\ UNCHANGED <<depth, session, options, detected, manager, raycaster>>

getVertex(un, vn) ==
  /\ LET r == getVertexResult(depth, un, vn)
     IN ret' = [NoRet EXCEPT !.op = "getVertex", !.u = un, !.v = vn,
                             !.kind = r.kind, !.value = r.value, !.index = r.index,
                             !.threw = (r.kind = "throw")]
  /\ UNCHANGED <<depth, session, options, detected, manager, raycaster>>

\* Vector3.applyMatrix4 for the abstracted matrices: the matrix permutes the
\* components.
ApplyMatrix4(vec, m) == [i \in 1..3 |-> vec[m[i]]]

\* World positions that are projected.
Positions == {<<0, 1, 0 - 1>>, <<1, 0 - 2, 2>>}

\* getProjectedDepthViewPositionFromWorldPosition: applyMatrix4 reads the
\* elements of its argument, so it raises a TypeError when the per-view
\* matrix arrays have no entry 0.  The result is kept as the (u, v) that was
\* sampled and the depth the target was scaled to; it is not a finite vector
\* (NaN) when the sampled depth is NaN or the unprojected z is 0.
ProjectedResult(d, position) ==
  IF Len(d.depthViewMatrices) = 0 \/ Len(d.depthProjectionMatrices) = 0
  THEN [kind |-> "throw", value |-> 0, index |-> 0, u |-> 0, v |-> 0]
  ELSE
    LET clip == ApplyMatrix4(ApplyMatrix4(position, d.depthViewMatrices[1]),
                             d.depthProjectionMatrices[1])
        un == ((clip[1] + 1) * UVDen) \div 2
        vn == ((clip[2] + 1) * UVDen) \div 2
        r == getDepthResult(d, un, vn)
        target == ApplyMatrix4(<<clip[1], clip[2], 0 - 1>>,
                               d.depthProjectionInverseMatrices[1])
    IN [kind |-> IF r.kind = "throw" THEN "throw"
                 ELSE IF r.kind = "NaN" \/ target[3] = 0 THEN "NaN"
                 ELSE "vector",
        value |-> r.value, index |-> r.index, u |-> un, v |-> vn]

getProjectedDepthViewPositionFromWorldPosition(position) ==
  /\ LET r == ProjectedResult(depth, position)
     IN ret' = [NoRet EXCEPT !.op = "getProjectedDepthViewPositionFromWorldPosition",
                             !.u = r.u, !.v = r.v,
                             !.kind = r.kind, !.value = r.value, !.index = r.index,
                             !.threw = (r.kind = "throw")]
  /\ UNCHANGED <<depth, session, options, detected, manager, raycaster>>

\* Mutant: the texture of view 0 is returned for every view.
getTextureResultViewZero(d, opts, viewId) ==
  IF ~opts.depthTexture THEN None ELSE At(d.depthTextures, 0)

\* getTexture: undefined (None) or the texture depthTextures holds for the
\* view, which is identified by the frame whose sample it shows.
getTextureResult(d, opts, viewId) ==
  IF ~opts.depthTexture THEN None ELSE At(d.depthTextures, viewId)

getTexture(viewId) ==
  /\ LET r == getTextureResult(depth, options, viewId)
     IN ret' = [NoRet EXCEPT !.op = "getTexture", !.view = viewId,
                             !.kind = IF IsSome(r) THEN "texture" ELSE "undefined",
                             !.value = IF IsSome(r) THEN Val(r) ELSE 0]
  /\ UNCHANGED <<depth, session, options, detected, manager, raycaster>>

----------------------------------------------------------------------------
(* class DetectedMesh *)

\* XRMesh.vertices: one Float32Array, or an array of Float32Arrays.
MeshVertices ==
  << [isArray |-> FALSE, value |-> <<0, 0, 0, 1, 0, 0, 0, 1, 0>>],
     [isArray |-> TRUE, value |-> << <<0, 0, 0, 1, 0, 0>>, <<0, 1, 0, 1, 1, 0>> >>],
     [isArray |-> TRUE, value |-> << <<0, 0, 1>>, <<>>, <<1, 0, 1, 0, 1, 1>> >>] >>
MeshIndices == << <<0, 1, 2>>, <<0, 1, 2, 1, 3, 2>>, <<0, 2, 1>> >>
MeshTimes == 0..MaxTime

\* An XRMesh of the frame: shape selects its vertices and indices.
XRMesh(t, shape) ==
  [lastChangedTime |-> t, vertices |-> MeshVertices[shape],
   indices |-> MeshIndices[shape]]
XRMeshes == {XRMesh(t, shape) : t \in MeshTimes, shape \in 1..Len(MeshVertices)}

RECURSIVE Concat(_)
Concat(arrays) ==
  IF arrays = <<>> THEN <<>> ELSE Head(arrays) \o Concat(Tail(arrays))

toFlatArray(array) == IF ~array.isArray THEN array.value ELSE Concat(array.value)

\* A THREE.BufferGeometry: its position attribute and its index.
BufferGeometry(mesh) ==
  [position |-> toFlatArray(mesh.vertices), index |-> mesh.indices]

\* RAPIER.ColliderDesc.trimesh(vertices, indices).
Trimesh(vertices, indices) == [vertices |-> vertices, indices |-> indices]

\* What the last call on the mesh was and did: its argument, the geometries
\* it constructed and disposed of, the colliders it removed from and created
\* in the world.
NoMeshCall ==
  [op |-> "none", mesh |-> XRMesh(0, 1), built |-> 0, disposed |-> 0,
   removed |-> 0, created |-> 0]

\* The fields of a DetectedMesh after its constructor; colliders counts the
\* colliders of blendedWorld.
NewDetectedMesh(xrMesh) ==
  [lastChangedTime |-> xrMesh.lastChangedTime,
   geometry |-> BufferGeometry(xrMesh),
   RAPIER |-> FALSE,
   rigidBody |-> FALSE,
   collider |-> None,
   colliders |-> 0,
   last |-> [NoMeshCall EXCEPT !.op = "constructor", !.mesh = xrMesh, !.built = 1]]

\* Most colliders the world is given (initRapierPhysics adds one per call).
MaxColliders == 2

initRapierPhysics ==
  /\ detected.colliders < MaxColliders
  /\ detected' =
       [detected EXCEPT
          !.RAPIER = TRUE,
          !.rigidBody = TRUE,
          !.collider = Some(Trimesh(detected.geometry.position,
                                    detected.geometry.index)),
          !.colliders = @ + 1,
          !.last = [NoMeshCall EXCEPT !.op = "initRapierPhysics", !.created = 1]]
  /\ UNCHANGED <<depth, session, options, ret, manager, raycaster>>

\* Mutant: the mesh is rebuilt whatever its timestamp.
updateVerticesResultAlways(m, mesh) ==
  LET rebuilt == [m EXCEPT !.lastChangedTime = mesh.lastChangedTime,
                           !.geometry = BufferGeometry(mesh),
                           !.last = [NoMeshCall EXCEPT !.op = "updateVertices",
                                                       !.mesh = mesh,
                                                       !.built = 1,
                                                       !.disposed = 1]]
  IN IF m.RAPIER /\ IsSome(m.collider)
     THEN [rebuilt EXCEPT
             !.collider = Some(Trimesh(toFlatArray(mesh.vertices), mesh.indices)),
             !.last = [@ EXCEPT !.removed = 1, !.created = 1]]
     ELSE rebuilt

\* The whole of updateVertices on the fields of the mesh.
updateVerticesResult(m, mesh) ==
  IF mesh.lastChangedTime = m.lastChangedTime
  THEN [m EXCEPT !.last = [NoMeshCall EXCEPT !.op = "updateVertices",
                                             !.mesh = mesh]]
  ELSE
    LET rebuilt == [m EXCEPT !.lastChangedTime = mesh.lastChangedTime,
                             !.geometry = BufferGeometry(mesh),
                             !.last = [NoMeshCall EXCEPT !.op = "updateVertices",
                                                         !.mesh = mesh,
                                                         !.built = 1,
                                                         !.disposed = 1]]
    IN IF m.RAPIER /\ IsSome(m.collider)
       THEN [rebuilt EXCEPT
               !.collider = Some(Trimesh(toFlatArray(mesh.vertices), mesh.indices)),
               !.last = [@ EXCEPT !.removed = 1, !.created = 1]]
       ELSE rebuilt

updateVertices(mesh) ==
  /\ detected' = updateVerticesResult(detected, mesh)
  /\ UNCHANGED <<depth, session, options, ret, manager, raycaster>>

----------------------------------------------------------------------------
(* class WalkthroughManager *)

\* Number of entries of SPLAT_ASSETS.
SplatCount == 2

\* Time is counted in units of 1/FadeDen second, opacity in units of
\* 1/OpacityDen.
FadeDen == 4
OpacityDen == 1000
FADE_DURATION_S == 1 * FadeDen
\* Largest frame delta, in units of 1/FadeDen second.
MaxDt == 5
Deltas == 1..MaxDt

\* easeInOutSine(n / FadeDen) = -(cos(pi * n / FadeDen) - 1) / 2, rounded to
\* 1/OpacityDen, for n in 0..FadeDen.
EaseTable == <<0, 146, 500, 854, 1000>>
easeInOutSine(n) == EaseTable[n + 1]

\* event.key of the key events, lower-cased.
Keys == {"w", "s", "0", "1", "2", "3"}
LocomotionKeys == {"w", "a", "s", "d"}
\* parseInt(key, 10): None stands for NaN.
ParseInt(key) ==
  IF key = "0" THEN Some(0) ELSE IF key = "1" THEN Some(1)
  ELSE IF key = "2" THEN Some(2) ELSE IF key = "3" THEN Some(3) ELSE None

\* The fields of a WalkthroughManager after init: null is None; opacity and
\* inScene are the opacity of every splat mesh and the meshes that have a
\* parent.
NewManager ==
  [currentIndex |-> 0,
   fadeProgress |-> None,
   nextIndex |-> None,
   opacity |-> [i \in 0..(SplatCount - 1) |-> OpacityDen],
   inScene |-> {0},
   keys |-> [k \in LocomotionKeys |-> FALSE]]

cycleSplatResult(m) ==
  IF IsSome(m.fadeProgress) THEN m
  ELSE [m EXCEPT !.nextIndex = Some((m.currentIndex + 1) % SplatCount),
                 !.fadeProgress = Some(0)]

cycleSplat ==
  /\ manager' = cycleSplatResult(manager)
  /\ UNCHANGED <<depth, session, options, ret, detected, raycaster>>

onKeyDownResult(m, key) ==
  LET pressed == IF key \in LocomotionKeys
                 THEN [m EXCEPT !.keys[key] = TRUE] ELSE m
      parsed == ParseInt(key)
  IN IF /\ IsSome(parsed)
        /\ Val(parsed) - 1 >= 0
        /\ Val(parsed) - 1 < SplatCount
        /\ Val(parsed) - 1 # m.currentIndex
        /\ ~IsSome(m.fadeProgress)
     THEN [pressed EXCEPT !.nextIndex = Some(Val(parsed) - 1),
                          !.fadeProgress = Some(0)]
     ELSE pressed

onKeyDown(key) ==
  /\ manager' = onKeyDownResult(manager, key)
  /\ UNCHANGED <<depth, session, options, ret, detected, raycaster>>

onKeyUp(key) ==
  /\ manager' = IF key \in LocomotionKeys
                THEN [manager EXCEPT !.keys[key] = FALSE] ELSE manager
  /\ UNCHANGED <<depth, session, options, ret, detected, raycaster>>

\* The swap of the fade-in branch: the current mesh leaves the scene and the
\* next one enters it with opacity 0.
Swap(m) ==
  IF m.currentIndex \in m.inScene
  THEN [m EXCEPT !.inScene = (@ \ {m.currentIndex}) \cup {Val(m.nextIndex)},
                 !.currentIndex = Val(m.nextIndex),
                 !.opacity[Val(m.nextIndex)] = 0]
  ELSE m

\* The branches of updateFade once fadeProgress has been advanced to p.
FadeStep(m, p) ==
  IF p < FADE_DURATION_S
  THEN [m EXCEPT !.fadeProgress = Some(p),
                 !.opacity[m.currentIndex] = OpacityDen - easeInOutSine(p)]
  ELSE IF p < 2 * FADE_DURATION_S
  THEN [Swap(m) EXCEPT !.fadeProgress = Some(p),
                       !.opacity[Swap(m).currentIndex] =
                          easeInOutSine(p - FADE_DURATION_S)]
  ELSE [m EXCEPT !.opacity[m.currentIndex] = OpacityDen,
                 !.fadeProgress = None,
                 !.nextIndex = None]

updateFadeResult(m, dt) ==
  IF ~IsSome(m.fadeProgress) THEN m ELSE FadeStep(m, Val(m.fadeProgress) + dt)

updateFade(dt) ==
  /\ manager' = updateFadeResult(manager, dt)
  /\ UNCHANGED <<depth, session, options, ret, detected, raycaster>>

----------------------------------------------------------------------------
(* class Raycaster *)

\* Distances are counted in units of 1/DistDen; Tolerance is 0.00001.
DistDen == 1000000
Tolerance == 10
Distances == {0, 8, 16}

\* The objects of the scene: id, renderOrder, whether layers.test passes for
\* the raycaster, and the ids of the children.
Objects ==
  << [id |-> 1, renderOrder |-> 0, layers |-> TRUE, children |-> <<3, 4>>],
     [id |-> 2, renderOrder |-> 1, layers |-> TRUE, children |-> <<>>],
     [id |-> 3, renderOrder |-> 0, layers |-> TRUE, children |-> <<>>],
     [id |-> 4, renderOrder |-> 1, layers |-> FALSE, children |-> <<>>] >>

\* What object.raycast pushes for every object under one ray: no hit (None)
\* or one hit at a distance.  Object 4 lies on every ray.
Rays ==
  {ray \in [1..Len(Objects) -> {None} \cup {Some(dist) : dist \in Distances}] :
     ray[4] = Some(0)}

Intersection(id, dist) ==
  [distance |-> dist, object |-> [id |-> id, renderOrder |-> Objects[id].renderOrder]]

defaultSortFunction(a, b) ==
  LET distDiff == a.distance - b.distance
  IN IF distDiff > Tolerance \/ 0 - distDiff > Tolerance THEN distDiff
     ELSE IF a.object.renderOrder # b.object.renderOrder
     THEN b.object.renderOrder - a.object.renderOrder
     ELSE b.object.id - a.object.id

\* intersect(object, raycaster, intersects, recursive): the hits appended
\* for the object and, when recursive, for its children (raycast never
\* returns false here, so propagation is not stopped).
RECURSIVE IntersectAll(_, _, _, _)
intersect(id, ray, intersects, recursive) ==
  LET own == IF Objects[id].layers /\ IsSome(ray[id])
             THEN Append(intersects, Intersection(id, Val(ray[id])))
             ELSE intersects
  IN IF recursive THEN IntersectAll(Objects[id].children, ray, own, TRUE)
     ELSE own

IntersectAll(ids, ray, intersects, recursive) ==
  IF ids = <<>> THEN intersects
  ELSE IntersectAll(Tail(ids), ray,
                    intersect(Head(ids), ray, intersects, recursive), recursive)

\* Array.prototype.sort(comparefn).  With a consistent comparator the result
\* is the stable sorted order; otherwise the order is implementation-defined
\* and any permutation may come out.
Sign(n) == IF n < 0 THEN 0 - 1 ELSE IF n > 0 THEN 1 ELSE 0
Consistent(list) ==
  \A i, j, k \in 1..Len(list) :
    LET a == list[i]
        b == list[j]
        c == list[k]
    IN /\ Sign(defaultSortFunction(a, b)) = 0 - Sign(defaultSortFunction(b, a))
       /\ (defaultSortFunction(a, b) = 0 /\ defaultSortFunction(b, c) = 0
             => defaultSortFunction(a, c) = 0)
       /\ (defaultSortFunction(a, b) < 0 /\ defaultSortFunction(b, c) < 0
             => defaultSortFunction(a, c) < 0)
       /\ (defaultSortFunction(a, b) > 0 /\ defaultSortFunction(b, c) > 0
             => defaultSortFunction(a, c) > 0)
Arrangements(list) ==
  {[i \in 1..Len(list) |-> list[p[i]]] :
     p \in {q \in [1..Len(list) -> 1..Len(list)] :
              \A i, j \in 1..Len(list) : q[i] = q[j] => i = j}}
StableSorted(list, out) ==
  \A i, j \in 1..Len(out) :
    i < j => \/ defaultSortFunction(out[i], out[j]) < 0
             \/ /\ defaultSortFunction(out[i], out[j]) = 0
                /\ \E m, n \in 1..Len(list) :
                     m < n /\ list[m] = out[i] /\ list[n] = out[j]
SortResults(list) ==
  IF Consistent(list)
  THEN {out \in Arrangements(list) : StableSorted(list, out)}
  ELSE Arrangements(list)

\* The raycaster: what its last call was given and returned.
NewRaycaster ==
  [op |-> "none", objects |-> <<>>, recursive |-> TRUE, found |-> <<>>,
   intersects |-> <<>>]

intersectObject(id, recursive, ray) ==
  /\ \E out \in SortResults(intersect(id, ray, <<>>, recursive)) :
       raycaster' = [op |-> "intersectObject", objects |-> <<id>>,
                     recursive |-> recursive,
                     found |-> intersect(id, ray, <<>>, recursive),
                     intersects |-> out]
  /\ UNCHANGED <<depth, session, options, ret, detected, manager>>

intersectObjects(ids, recursive, ray) ==
  /\ \E out \in SortResults(IntersectAll(ids, ray, <<>>, recursive)) :
       raycaster' = [op |-> "intersectObjects", objects |-> ids,
                     recursive |-> recursive,
                     found |-> IntersectAll(ids, ray, <<>>, recursive),
                     intersects |-> out]
  /\ UNCHANGED <<depth, session, options, ret, detected, manager>>

----------------------------------------------------------------------------
(* The program *)

\* The session's depth configuration and the DepthOptions; the session is
\* asked for float32 data exactly when options.useFloat32 is set.
Setup(active, usage, f32, mesh, texture, readback) ==
  /\ session = [depthActive |-> active, depthUsage |-> usage,
                depthDataFormat |-> IF f32 THEN "float32" ELSE "luminance-alpha",
                gpuReadback |-> readback]
  /\ options = [useFloat32 |-> f32, depthMesh |-> mesh, depthTexture |-> texture]
  /\ depth = NewDepth(options)
  /\ ret = NoRet
  /\ detected = NewDetectedMesh(XRMesh(0, 1))
  /\ manager = NewManager
  /\ raycaster = NewRaycaster

\* The configurations explored: a session that cannot pause sensing and one
\* that can (CPU delivery), and a GPU session whose depth mesh gets no CPU
\* buffer because the conversion is unavailable.
Init ==
  \/ Setup("undefined", "cpu-optimized", TRUE, FALSE, FALSE, FALSE)
  \/ Setup("true", "cpu-optimized", FALSE, TRUE, TRUE, FALSE)
  \/ Setup("true", "gpu-optimized", FALSE, TRUE, TRUE, FALSE)

Next ==
  \/ \E frame \in Frames : updateLocalDepth(frame)
  \/ \E client \in Clients : resumeDepth(client)
  \/ \E client \in Clients : pauseDepth(client)

\* Frames and client registration.
Spec == Init /\ [][Next]_vars

\* The configurations explored with queries: CPU delivery, and GPU delivery
\* without a consumer of CPU samples.
InitQuery ==
  \/ Setup("undefined", "cpu-optimized", FALSE, TRUE, TRUE, FALSE)
  \/ Setup("undefined", "gpu-optimized", FALSE, FALSE, TRUE, FALSE)

NextQuery ==
  \/ \E frame \in Frames : updateLocalDepth(frame)
  \/ \E un \in UVs, vn \in UVs : getDepth(un, vn)
  \/ \E un \in UVs, vn \in UVs : getVertex(un, vn)

\* Frames and queries.
SpecQuery == InitQuery /\ [][NextQuery]_vars

\* The configurations explored with the projection and texture queries: CPU
\* delivery with depth textures, and GPU delivery without them.
InitHandoff ==
  \/ Setup("undefined", "cpu-optimized", FALSE, FALSE, TRUE, FALSE)
  \/ Setup("undefined", "gpu-optimized", FALSE, TRUE, FALSE, FALSE)

NextHandoff ==
  \/ \E frame \in Frames : updateLocalDepth(frame)
  \/ \E position \in Positions :
        getProjectedDepthViewPositionFromWorldPosition(position)
  \/ \E viewId \in 0..MaxViews : getTexture(viewId)

\* Frames, projection and texture queries.
SpecHandoff == InitHandoff /\ [][NextHandoff]_vars

\* The configurations explored with calls for single views: CPU delivery;
\* GPU delivery with a depth mesh and the conversion available; with a depth
\* mesh and the conversion unavailable; and without a depth mesh.
InitDirect ==
  \/ Setup("undefined", "cpu-optimized", FALSE, TRUE, TRUE, FALSE)
  \/ Setup("undefined", "gpu-optimized", FALSE, TRUE, TRUE, TRUE)
  \/ Setup("undefined", "gpu-optimized", FALSE, TRUE, TRUE, FALSE)
  \/ Setup("undefined", "gpu-optimized", FALSE, FALSE, TRUE, FALSE)

NextDirect ==
  \/ \E kind \in AnyKinds, t \in Times, viewId \in 0..(MaxViews - 1) :
        CallUpdateCPUDepthData(kind, t, viewId)
  \/ \E kind \in AnyKinds, t \in Times, viewId \in 0..(MaxViews - 1) :
        CallUpdateGPUDepthData(kind, t, viewId)

\* Ingestion of single views in any order.
SpecDirect == InitDirect /\ [][NextDirect]_vars

\* The configurations explored with frames alone: CPU delivery; GPU delivery
\* with a depth mesh and the conversion available; GPU delivery without a
\* depth mesh.
InitFrames ==
  \/ Setup("undefined", "cpu-optimized", FALSE, TRUE, TRUE, FALSE)
  \/ Setup("undefined", "gpu-optimized", FALSE, TRUE, TRUE, TRUE)
  \/ Setup("undefined", "gpu-optimized", TRUE, FALSE, TRUE, FALSE)

NextFrames == \E frame \in Frames : updateLocalDepth(frame)

\* Frames only.
SpecFrames == InitFrames /\ [][NextFrames]_vars

\* A detected mesh, constructed from any XRMesh, beside an idle Depth.
InitMesh ==
  /\ \E xrMesh \in XRMeshes : detected = NewDetectedMesh(xrMesh)
  /\ session = [depthActive |-> "undefined", depthUsage |-> "cpu-optimized",
                depthDataFormat |-> "luminance-alpha", gpuReadback |-> FALSE]
  /\ options = [useFloat32 |-> FALSE, depthMesh |-> FALSE, depthTexture |-> FALSE]
  /\ depth = NewDepth(options)
  /\ ret = NoRet
  /\ manager = NewManager
  /\ raycaster = NewRaycaster

NextMesh ==
  \/ initRapierPhysics
  \/ \E mesh \in XRMeshes : updateVertices(mesh)

\* Mesh updates and physics initialisation.
SpecMesh == InitMesh /\ [][NextMesh]_vars

\* The walkthrough after init, beside an idle Depth.
InitWalk == Setup("undefined", "cpu-optimized", FALSE, FALSE, FALSE, FALSE)

NextWalk ==
  \/ cycleSplat
  \/ \E key \in Keys : onKeyDown(key)
  \/ \E key \in Keys : onKeyUp(key)
  \/ \E dt \in Deltas : updateFade(dt)

\* Key events, long pinches and frames of the walkthrough.
SpecWalk == InitWalk /\ [][NextWalk]_vars

\* The raycaster before any call, beside an idle Depth.
InitRay == Setup("undefined", "cpu-optimized", FALSE, FALSE, FALSE, FALSE)

TopLevel == {<<1>>, <<2>>, <<1, 2>>, <<2, 1>>}

NextRay ==
  \/ \E id \in 1..Len(Objects), recursive \in BOOLEAN, ray \in Rays :
        intersectObject(id, recursive, ray)
  \/ \E ids \in TopLevel, recursive \in BOOLEAN, ray \in Rays :
        intersectObjects(ids, recursive, ray)

\* Raycasts.
SpecRay == InitRay /\ [][NextRay]_vars


----------------------------------------------------------------------------
(* Properties *)

IsUpdate(r) == r.op = "updateLocalDepth"
IsQuery(r) == r.op \in {"getDepth", "getVertex"}

\* The session can pause sensing and a resumeDepth / pauseDepth call has
\* occurred.
Governed == session.depthActive # "undefined" /\ depth.depthClientsInitialized

\* Entry i of a per-view transform array, or nothing when it has no entry i.
Entry(arr, i) == IF i + 1 <= Len(arr) THEN Some(arr[i + 1]) ELSE None

\* Everything ingestion writes: the depth arrays and their dimensions, the
\* stored samples and views, and the six per-view transform arrays.
Ingested(d) ==
  <<d.depthArray, d.width, d.height, d.cpuDepthData, d.gpuDepthData, d.view,
    d.depthViewMatrices, d.depthProjectionMatrices, d.depthProjectionInverseMatrices,
    d.depthViewProjectionMatrices, d.depthCameraPositions, d.depthCameraRotations>>

\* C1: on a pausable session, once a resumeDepth / pauseDepth call has
\* occurred, an updateLocalDepth call made while the client set is empty
\* writes nothing: depthArray, width, height, the stored samples and views
\* and the six transform arrays are the same before and after the call.
GatingNoOp ==
  [][(IsUpdate(ret') /\ Governed /\ depth.depthClients = {})
       => Ingested(depth') = Ingested(depth)]_vars

\* C1 witness: a gated call that left earlier depth data in place.
GatingNoOpWitness ==
  /\ IsUpdate(ret) /\ ret.exit = "gated"
  /\ Governed /\ depth.depthClients = {}
  /\ IsSome(At(depth.view, 0))

\* C2: when gating applies, an updateLocalDepth call requests
\* pauseDepthSensing exactly when sensing is active and the client set is
\* empty, requests resumeDepthSensing exactly when sensing is inactive and
\* the client set is non-empty, and ends with session.depthActive true
\* exactly when the client set is non-empty.
PauseResumeProtocol ==
  [][(IsUpdate(ret') /\ Governed)
       => /\ (ret'.request = "pause")
               <=> (session.depthActive = "true" /\ depth.depthClients = {})
          /\ (ret'.request = "resume")
               <=> (session.depthActive = "false" /\ depth.depthClients # {})
          /\ (session'.depthActive = "true") <=> (depth'.depthClients # {})]_vars

\* C2 witness: sensing was paused and a later call resumed it for a client.
PauseResumeWitness ==
  /\ IsUpdate(ret) /\ ret.request = "resume"
  /\ session.depthActive = "true" /\ depth.depthClients # {}

\* C3: while no resumeDepth / pauseDepth call has occurred, or when the
\* session cannot pause sensing, updateLocalDepth makes no request to the
\* session and never takes the empty-registry exit.
DefaultOn ==
  [][(IsUpdate(ret') /\ ~Governed)
       => /\ ret'.request = "none"
          /\ ret'.exit # "gated"
          /\ session' = session]_vars

\* C3 witness: a pausable session without any registration call ingested a
\* whole frame although its client set is empty.
DefaultOnWitness ==
  /\ IsUpdate(ret) /\ ret.exit = "done"
  /\ session.depthActive = "true" /\ ~depth.depthClientsInitialized
  /\ depth.depthClients = {}
  /\ IsSome(At(depth.cpuDepthData, 0))

\* C4 as claimed: pauseDepth for a client that is not registered leaves the
\* state of the subsystem as it was.
ReleaseUnregisteredNoOp ==
  [][(ret'.op = "pauseDepth" /\ ret'.client \notin depth.depthClients)
       => depth' = depth]_vars

\* C4 as amended: pauseDepth for a client that is not registered changes
\* nothing but depthClientsInitialized, which it sets; it is a no-op exactly
\* when a resumeDepth / pauseDepth call has occurred before.
ReleaseUnregistered ==
  [][(ret'.op = "pauseDepth" /\ ret'.client \notin depth.depthClients)
       => /\ depth' = [depth EXCEPT !.depthClientsInitialized = TRUE]
          /\ session' = session]_vars

\* C4 witness: a release of an unregistered client while another client is
\* registered.
ReleaseUnregisteredWitness ==
  /\ ret.op = "pauseDepth" /\ ret.kind = "absent"
  /\ depth.depthClients # {}

\* The request and the exit that the client count alone calls for.
RequestFor(count, active) ==
  IF active = "true" /\ count = 0 THEN "pause"
  ELSE IF active = "false" /\ count > 0 THEN "resume"
  ELSE "none"

\* C5: resumeDepth inserts and pauseDepth removes exactly the given client
\* (no other operation changes the set, so the set holds the clients whose
\* last call was resumeDepth, each once), and the gating decision of
\* updateLocalDepth is a function of the cardinality of the set alone.
ClientSet ==
  [][/\ ret'.op = "resumeDepth"
          => depth'.depthClients = depth.depthClients \cup {ret'.client}
     /\ ret'.op = "pauseDepth"
          => depth'.depthClients = depth.depthClients \ {ret'.client}
     /\ ret'.op \notin {"resumeDepth", "pauseDepth"}
          => depth'.depthClients = depth.depthClients
     /\ (IsUpdate(ret') /\ Governed)
          => /\ ret'.request
                  = RequestFor(Cardinality(depth.depthClients), session.depthActive)
             /\ (ret'.exit = "gated") <=> (Cardinality(depth.depthClients) = 0)]_vars

\* C5 witness: resumeDepth for a client that is already registered, leaving
\* one client.
ClientSetWitness ==
  /\ ret.op = "resumeDepth" /\ ret.kind = "present"
  /\ Cardinality(depth.depthClients) = 1

\* The sample stored for view i under the session's delivery mode.
Stored(d, i) ==
  IF session.depthUsage = "gpu-optimized" THEN At(d.gpuDepthData, i)
  ELSE At(d.cpuDepthData, i)

\* View 0 was ingested by the call that returned r.
ViewZeroIngested(r) ==
  IsUpdate(r) /\ (r.exit = "done" \/ (r.exit \in {"missing", "threw"} /\ r.k >= 1))

PoseUnavailableExit(r) == IsUpdate(r) /\ r.exit \in {"noPose", "noRefSpace"}

\* C6: an updateLocalDepth call without viewer pose (or without reference
\* space) leaves the depth arrays, the stored samples and the transform
\* state as they were and raises nothing; the next call, when it ingests CPU
\* data for view 0, makes depthArray[0] exactly the raw values of its frame.
PoseUnavailable ==
  [][/\ PoseUnavailableExit(ret')
          => (Ingested(depth') = Ingested(depth) /\ ~ret'.threw)
     /\ (PoseUnavailableExit(ret) /\ ViewZeroIngested(ret')
           /\ session.depthUsage # "gpu-optimized")
          => LET ref == Val(depth'.cpuDepthData[1])
             IN /\ ref.time = Val(depth'.view[1]).time
                /\ depth'.depthArray[1] = Some(SampleValues(ref.kind, ref.time))]_vars

\* C6 witness: a call without pose that found, and left, a depth array for
\* view 0.
PoseUnavailableWitness ==
  /\ IsUpdate(ret) /\ ret.exit = "noPose"
  /\ IsSome(At(depth.depthArray, 0))

\* What view j holds: depth array, samples and transform entries.
PerView(d, j) ==
  <<At(d.depthArray, j), At(d.cpuDepthData, j), At(d.gpuDepthData, j),
    Entry(d.depthViewMatrices, j), Entry(d.depthProjectionMatrices, j),
    Entry(d.depthProjectionInverseMatrices, j),
    Entry(d.depthViewProjectionMatrices, j),
    Entry(d.depthCameraPositions, j), Entry(d.depthCameraRotations, j)>>

\* The projection and camera position that the sample ref gives view i.
ProjectionOf(ref, i) ==
  IF Info(ref).hasTransform THEN Info(ref).projectionMatrix
  ELSE CameraFor(i).projectionMatrix
PositionOf(ref, i) ==
  IF Info(ref).hasTransform THEN Info(ref).position ELSE CameraFor(i).position

\* C7: when the depth data of view k is missing in an updateLocalDepth call,
\* views 0..k-1 hold this frame's sample (on the CPU path also its raw
\* values as depth array) and the transform taken from it, and every view
\* j >= k holds the depth array, samples, matrices and camera pose it held
\* before the call.
FailFast ==
  [][(IsUpdate(ret') /\ ret'.exit = "missing")
       => LET k == ret'.k
              t == Val(depth'.view[k + 1]).time
          IN /\ \A i \in 0..(k - 1) :
                  /\ IsSome(Stored(depth', i))
                  /\ Val(Stored(depth', i)).time = t
                  /\ session.depthUsage # "gpu-optimized"
                       => At(depth'.depthArray, i)
                            = Some(SampleValues(Val(Stored(depth', i)).kind, t))
                  /\ Entry(depth'.depthProjectionMatrices, i)
                       = Some(ProjectionOf(Val(Stored(depth', i)), i))
                  /\ Entry(depth'.depthCameraPositions, i)
                       = Some(PositionOf(Val(Stored(depth', i)), i))
             /\ \A j \in k..(MaxViews - 1) : PerView(depth', j) = PerView(depth, j)]_vars

\* C7 witness: the data of view 1 was missing, so view 0 holds the new frame
\* and view 1 still holds the sample of an earlier frame.
FailFastWitness ==
  /\ IsUpdate(ret) /\ ret.exit = "missing" /\ ret.k = 1
  /\ IsSome(Stored(depth, 0)) /\ IsSome(Stored(depth, 1))
  /\ Val(Stored(depth, 0)).time = Val(depth.view[2]).time
  /\ Val(Stored(depth, 1)).time # Val(depth.view[2]).time

\* C8: whenever a depth array for view 0 exists, the index that getDepth /
\* getVertex compute for (u, v), in range or clamped, lies in
\* [0, width * height) and inside depthArray[0].
IndexSafe ==
  (IsQuery(ret) /\ IsSome(At(depth.depthArray, 0)))
    => /\ ret.index \in 0..(depth.width * depth.height - 1)
       /\ ret.index < Len(Val(depth.depthArray[1]))

\* Column and row of (u, v) in a sample of the given width and height, the
\* row counted through 1 - v.
ColumnIn(width, un) == Round(clamp(un * width, 0, (width - 1) * UVDen))
RowIn(height, vn) == Round(clamp((UVDen - vn) * height, 0, (height - 1) * UVDen))

\* C9: once a CPU sample for view 0 is ingested, getDepth(u, v) is the raw
\* value of that sample at row RowIn, column ColumnIn, times the sample's
\* rawValueToMeters; for the 4x4 sample of raw values 1000 and scale 0.001,
\* getDepth(0.5, 0.5) is 1.0.
ScaleAndFlip ==
  (ret.op = "getDepth" /\ IsSome(At(depth.cpuDepthData, 0)))
    => LET ref == Val(depth.cpuDepthData[1])
           width == Info(ref).width
           height == Info(ref).height
           raw == SampleValues(ref.kind, ref.time)
       IN /\ ret.kind = "number"
          /\ ret.value = Info(ref).rawValueToMeters
                           * raw[RowIn(height, ret.v) * width + ColumnIn(width, ret.u) + 1]
          /\ (ref.kind = 1 /\ 2 * ret.u = UVDen /\ 2 * ret.v = UVDen)
               => ret.value = R2MDen

\* C10: while no depth array exists for view 0, getDepth returns 0 and
\* getVertex returns null for every (u, v), neither raises, and neither
\* changes any state.
EmptyState ==
  [][(IsQuery(ret') /\ ~IsSome(At(depth.depthArray, 0)))
       => /\ ~ret'.threw
          /\ ret'.op = "getDepth" => (ret'.kind = "number" /\ ret'.value = 0)
          /\ ret'.op = "getVertex" => ret'.kind = "null"
          /\ UNCHANGED <<depth, session, options>>]_vars

\* C10 witness: getDepth returned 0 after GPU frames were ingested without
\* conversion.
EmptyStateWitness ==
  /\ ret.op = "getDepth" /\ ret.kind = "number" /\ ret.value = 0
  /\ IsSome(At(depth.gpuDepthData, 0))
  /\ ~IsSome(At(depth.depthArray, 0))

\* C11: getProjectedDepthViewPositionFromWorldPosition never raises: in
\* every state, the state before any ingestion included, it returns a
\* view-space position (the zero vector when there is no depth).
ProjectionNeverRaises ==
  ret.op = "getProjectedDepthViewPositionFromWorldPosition"
    => (~ret.threw /\ ret.kind = "vector")

\* C12: every view that has an entry has a view-projection matrix equal to
\* projection x view and an inverse projection that multiplies with the
\* projection to the identity, after any sequence of updateCPUDepthData /
\* updateGPUDepthData calls on either sourcing path.
MatrixInvariant ==
  \A k \in 1..Len(depth.depthViewProjectionMatrices) :
    /\ depth.depthViewProjectionMatrices[k]
         = Multiply(depth.depthProjectionMatrices[k], depth.depthViewMatrices[k])
    /\ Multiply(depth.depthProjectionInverseMatrices[k],
                depth.depthProjectionMatrices[k]) = Identity
    /\ Multiply(depth.depthProjectionMatrices[k],
                depth.depthProjectionInverseMatrices[k]) = Identity

\* C12 witness: view 1 was updated on the camera fallback path with a
\* projection and a view matrix that do not commute, after view 0 had been
\* updated on the session path.
MatrixInvariantWitness ==
  /\ ret.op \in {"updateCPUDepthData", "updateGPUDepthData"} /\ ret.view = 1
  /\ IsSome(Stored(depth, 0)) /\ Info(Val(Stored(depth, 0))).hasTransform
  /\ IsSome(Stored(depth, 1)) /\ ~Info(Val(Stored(depth, 1))).hasTransform
  /\ Multiply(depth.depthProjectionMatrices[2], depth.depthViewMatrices[2])
       # Multiply(depth.depthViewMatrices[2], depth.depthProjectionMatrices[2])

IsIngestion(r) ==
  r.op \in {"updateLocalDepth", "updateCPUDepthData", "updateGPUDepthData"}

\* The configuration gives every ingested view a depth array.
ProducesArray ==
  session.depthUsage # "gpu-optimized" \/ (options.depthMesh /\ session.gpuReadback)

\* C13: an ingestion call that aborts or fails leaves every view either
\* untouched or wholly at the new sample: it never advances the stored
\* sample and the transform of a view while the depth array of that view is
\* not the array of that sample.
AllOrNothing ==
  [][(IsIngestion(ret') /\ ret'.exit \in {"gated", "noRefSpace", "noPose", "missing", "threw"})
       => \A j \in 0..(MaxViews - 1) :
            \/ PerView(depth', j) = PerView(depth, j)
            \/ /\ IsSome(Stored(depth', j))
               /\ ProducesArray
                    => At(depth'.depthArray, j)
                         = Some(SampleValues(Val(Stored(depth', j)).kind,
                                             Val(Stored(depth', j)).time))]_vars

\* The number of steps of the given name in a log.
Count(log, name) == Cardinality({i \in 1..Len(log) : log[i].step = name})

\* The timestamp of the frame last ingested before the call (0: none).
LastTime(d) == IF IsSome(At(d.view, 0)) THEN Val(d.view[1]).time ELSE 0

\* C14: in gpu-optimized mode with the depth mesh enabled, a frame (mono or
\* stereo) that is ingested runs the GPU-to-CPU conversion exactly once when
\* its timestamp differs from that of the frame before, and never runs it
\* again for the same timestamp.
ConversionOncePerTimestamp ==
  [][(IsUpdate(ret') /\ ret'.exit = "done"
        /\ session.depthUsage = "gpu-optimized" /\ options.depthMesh)
       => Count(ret'.log, "convertGPUToGPU")
            = IF LastTime(depth') # LastTime(depth) THEN 1 ELSE 0]_vars

FrameOrdering ==
  [][IsUpdate(ret')
       => LET log == ret'.log
              views == {i \in 1..Len(log) : log[i].step = "view"}
              meshes == {i \in 1..Len(log) : log[i].step = "mesh"}
              Before(i, step) == \E j \in 1..(i - 1) : log[j] = Step(step, 0)
              After(i, step) == \E j \in (i + 1)..Len(log) : log[j] = Step(step, 0)
          IN /\ \A i \in views : log[i].view = Cardinality({j \in views : j < i})
             /\ \A i, j \in 1..Len(log) : i < j => log[i].view <= log[j].view
             /\ Len(log) > 0 => log[1] = Step("view", 0)
             /\ Cardinality(meshes) <= 1
             /\ \A m \in meshes :
                  /\ log[m].view = 0
                  /\ Before(m, "matrices") /\ ~After(m, "matrices")
                  /\ ~After(m, "depthArray")
                  /\ session.depthUsage # "gpu-optimized" => Before(m, "depthArray")
                  /\ Val(depth'.depthMesh).projectionInverse
                       = depth'.depthProjectionInverseMatrices[1]
                  /\ Val(depth'.depthMesh).position = depth'.depthCameraPositions[1]
                  /\ Val(depth'.depthMesh).time = Val(depth'.view[1]).time
             /\ (meshes = {} /\ IsSome(depth.depthMesh))
                  => depth'.depthMesh = depth.depthMesh]_vars

\* C16 witness: a stereo frame was ingested whole on the CPU path and the
\* depth mesh was updated in it.
FrameOrderingWitness ==
  /\ IsUpdate(ret) /\ ret.exit = "done" /\ ret.k = 2
  /\ session.depthUsage # "gpu-optimized"
  /\ Count(ret.log, "mesh") = 1 /\ Count(ret.log, "depthArray") = 2

\* Length of the per-view transform arrays (of the first of them).
TransformCount(d) == Len(d.depthViewMatrices)

\* C17: over any sequence of update calls the six per-view transform arrays
\* have one common length, which never decreases and is at least k + 1
\* after an update of view k; an entry of a view that was never updated
\* holds the identity matrices, the zero position and the identity rotation.
TransformsOnlyGrow ==
  [][/\ {Len(depth'.depthViewMatrices), Len(depth'.depthProjectionMatrices),
         Len(depth'.depthProjectionInverseMatrices),
         Len(depth'.depthViewProjectionMatrices),
         Len(depth'.depthCameraPositions), Len(depth'.depthCameraRotations)}
          = {TransformCount(depth')}
     /\ TransformCount(depth') >= TransformCount(depth)
     /\ ret'.op \in {"updateCPUDepthData", "updateGPUDepthData"}
          => TransformCount(depth') >= ret'.view + 1
     /\ \A i \in 1..TransformCount(depth') :
          (At(depth'.cpuDepthData, i - 1) = None /\ At(depth'.gpuDepthData, i - 1) = None)
            => /\ depth'.depthViewMatrices[i] = Identity
               /\ depth'.depthProjectionMatrices[i] = Identity
               /\ depth'.depthProjectionInverseMatrices[i] = Identity
               /\ depth'.depthViewProjectionMatrices[i] = Identity
               /\ depth'.depthCameraPositions[i] = ZeroVector
               /\ depth'.depthCameraRotations[i] = IdentityQuaternion]_vars

\* C17 witness: view 1 was updated while view 0 never was, so the arrays
\* have two entries and entry 0 is the default one.
TransformsOnlyGrowWitness ==
  /\ ret.op \in {"updateCPUDepthData", "updateGPUDepthData"} /\ ret.view = 1
  /\ ~IsSome(Stored(depth, 0)) /\ IsSome(Stored(depth, 1))
  /\ TransformCount(depth) = 2
  /\ depth.depthProjectionMatrices[1] = Identity
  /\ depth.depthProjectionMatrices[2] # Identity

\* C18: getTexture returns nothing for every view and in every state while
\* depth textures are disabled in the options, however many frames were
\* ingested; while they are enabled it returns the texture held for the
\* view, which shows the sample last ingested for that view (nothing for a
\* view that was never ingested).
TextureHandoff ==
  ret.op = "getTexture"
    => IF options.depthTexture /\ IsSome(Stored(depth, ret.view))
       THEN ret.kind = "texture" /\ ret.value = Val(Stored(depth, ret.view)).time
       ELSE ret.kind = "undefined"

\* C18 witness: the texture of view 1 was returned while view 0 holds the
\* texture of another frame.
TextureHandoffWitness ==
  /\ ret.op = "getTexture" /\ ret.view = 1 /\ ret.kind = "texture"
  /\ IsSome(At(depth.depthTextures, 0))
  /\ ret.value # Val(depth.depthTextures[1])

\* C19: in updateLocalDepth every view whose depth data is present takes
\* exactly one path: updateGPUDepthData when session.depthUsage is
\* 'gpu-optimized' and updateCPUDepthData otherwise; a view without depth
\* data takes none; the CPU path leaves gpuDepthData as it was and the GPU
\* path leaves cpuDepthData as it was.
FormatSelection ==
  [][IsUpdate(ret')
       => LET log == ret'.log
              gpu(v) == Cardinality({i \in 1..Len(log) : log[i] = Step("gpuDepthData", v)})
              cpu(v) == Cardinality({i \in 1..Len(log) : log[i] = Step("cpuDepthData", v)})
              taken(v) == Count(log, "view") > v
                          /\ ~(ret'.exit = "missing" /\ ret'.k = v)
          IN /\ \A v \in 0..(MaxViews - 1) :
                  IF ~taken(v) THEN gpu(v) = 0 /\ cpu(v) = 0
                  ELSE IF session.depthUsage = "gpu-optimized"
                  THEN gpu(v) = 1 /\ cpu(v) = 0
                       /\ Val(depth'.gpuDepthData[v + 1]).time = Val(depth'.view[v + 1]).time
                  ELSE gpu(v) = 0 /\ cpu(v) = 1
                       /\ Val(depth'.cpuDepthData[v + 1]).time = Val(depth'.view[v + 1]).time
             /\ session.depthUsage = "gpu-optimized"
                  => depth'.cpuDepthData = depth.cpuDepthData
             /\ session.depthUsage # "gpu-optimized"
                  => depth'.gpuDepthData = depth.gpuDepthData]_vars

\* C19 witness: a stereo frame was ingested whole on the GPU path of a
\* session that delivers 16-bit data, and no CPU sample is stored.
FormatSelectionWitness ==
  /\ IsUpdate(ret) /\ ret.exit = "done" /\ ret.k = 2
  /\ session.depthUsage = "gpu-optimized"
  /\ session.depthDataFormat = "luminance-alpha"
  /\ Count(ret.log, "gpuDepthData") = 2
  /\ depth.cpuDepthData = <<>> /\ Len(depth.gpuDepthData) = 2

\* C20: an update of view k takes projection, view matrix, camera position
\* and rotation all from the sample when the sample has both a projection
\* matrix and a transform, and otherwise all from the render camera of
\* index k, or from the main camera when there is no such camera.
TransformSourcing ==
  [][ret'.op \in {"updateCPUDepthData", "updateGPUDepthData"}
       => LET k == ret'.view + 1
              info == Info(Val(Stored(depth', ret'.view)))
              camera == IF k <= Len(XRCameras) THEN XRCameras[k] ELSE MainCamera
          IN IF info.hasProjection /\ info.hasTransform
             THEN /\ depth'.depthProjectionMatrices[k] = info.projectionMatrix
                  /\ depth'.depthViewMatrices[k] = info.transformInverse
                  /\ depth'.depthCameraPositions[k] = info.position
                  /\ depth'.depthCameraRotations[k] = info.orientation
             ELSE /\ depth'.depthProjectionMatrices[k] = camera.projectionMatrix
                  /\ depth'.depthViewMatrices[k] = camera.matrixWorldInverse
                  /\ depth'.depthCameraPositions[k] = camera.position
                  /\ depth'.depthCameraRotations[k] = camera.quaternion]_vars

\* C20 witness: view 1, which has no render camera of its own, was updated
\* with a sample that has a projection matrix but no transform, and holds
\* the projection of the main camera.
TransformSourcingWitness ==
  /\ ret.op \in {"updateCPUDepthData", "updateGPUDepthData"} /\ ret.view = 1
  /\ IsSome(Stored(depth, 1))
  /\ Info(Val(Stored(depth, 1))).hasProjection
  /\ ~Info(Val(Stored(depth, 1))).hasTransform
  /\ depth.depthProjectionMatrices[2] = MainCamera.projectionMatrix
  /\ depth.depthProjectionMatrices[2] # Info(Val(Stored(depth, 1))).projectionMatrix

\* C21: updateVertices with a mesh whose lastChangedTime equals the stored
\* one changes no field of the detected mesh (geometry, collider, world and
\* timestamp) and constructs nothing; with a different lastChangedTime it
\* stores the new timestamp and a geometry built from the flattened
\* vertices and the indices of the mesh, and if physics was initialised it
\* removes one collider and creates one, built from the same data, so the
\* world keeps its number of colliders; without physics no collider is
\* touched.  The same update applied twice in a row rebuilds once.
RebuildOnChange ==
  [][detected'.last.op = "updateVertices" =>
       LET mesh == detected'.last.mesh
           call == detected'.last
       IN /\ mesh.lastChangedTime = detected.lastChangedTime =>
               /\ [detected' EXCEPT !.last = detected.last] = detected
               /\ call.built = 0 /\ call.removed = 0 /\ call.created = 0
          /\ mesh.lastChangedTime # detected.lastChangedTime =>
               /\ detected'.lastChangedTime = mesh.lastChangedTime
               /\ detected'.geometry = [position |-> toFlatArray(mesh.vertices),
                                        index |-> mesh.indices]
               /\ call.built = 1
               /\ detected'.colliders = detected.colliders
               /\ IF detected.RAPIER
                  THEN /\ call.removed = 1 /\ call.created = 1
                       /\ detected'.collider =
                            Some([vertices |-> detected'.geometry.position,
                                  indices |-> detected'.geometry.index])
                  ELSE /\ call.removed = 0 /\ call.created = 0
                       /\ detected'.collider = None
          /\ (detected.last.op \in {"updateVertices", "constructor"}
                /\ detected.last.mesh = mesh) => call.built = 0
    ]_vars

\* A mesh with physics has just been rebuilt from an array of vertex chunks.
RebuildOnChangeWitness ==
  /\ detected.last.op = "updateVertices"
  /\ detected.last.built = 1
  /\ detected.last.removed = 1 /\ detected.last.created = 1
  /\ detected.last.mesh.vertices.isArray
  /\ detected.colliders = 1

\* C22: whenever depthArray[0] exists, width * height is the number of its
\* elements: the shared width and height describe the array of view 0.
DimensionConsistency ==
  IsSome(At(depth.depthArray, 0)) =>
    depth.width * depth.height = Len(Val(At(depth.depthArray, 0)))

\* C23: with frames alone, each of cpuDepthData and gpuDepthData has an entry
\* for every view below a view it has an entry for, and the rawValueToMeters
\* getter does not raise.
NoHoles ==
  /\ \A k \in 1..Len(depth.cpuDepthData) : IsSome(depth.cpuDepthData[k])
  /\ \A k \in 1..Len(depth.gpuDepthData) : IsSome(depth.gpuDepthData[k])
  /\ ~rawValueToMeters(depth).threw

\* Two views are stored and the last frame ended at view 0 for lack of data;
\* the getter yields the scale of the stored sample of view 0.
NoHolesWitness ==
  /\ ret.op = "updateLocalDepth"
  /\ ret.exit = "missing" /\ ret.k = 0
  /\ Len(depth.gpuDepthData) = 2
  /\ rawValueToMeters(depth).value > 0

\* C24: after every updateLocalDepth call, each view i with a stored view[i]
\* has a stored sample of the frame of view[i], and the projection and
\* camera position of view i are those the sample gives.
FrameCoherence ==
  IsUpdate(ret) =>
    \A i \in 0..(MaxViews - 1) :
      IsSome(At(depth.view, i)) =>
        /\ IsSome(Stored(depth, i))
        /\ Val(Stored(depth, i)).time = Val(At(depth.view, i)).time
        /\ Entry(depth.depthProjectionMatrices, i) =
             Some(ProjectionOf(Val(Stored(depth, i)), i))
        /\ Entry(depth.depthCameraPositions, i) =
             Some(PositionOf(Val(Stored(depth, i)), i))

\* The order the default sort function stands for: no hit precedes one that
\* is closer by more than the tolerance, and of two hits within the tolerance
\* the one of higher renderOrder, then of higher id, comes first.
ClosestToFurthest(list) ==
  \A i, j \in 1..Len(list) :
    i < j =>
      /\ list[i].distance - list[j].distance <= Tolerance
      /\ list[j].distance - list[i].distance <= Tolerance =>
           \/ list[i].object.renderOrder > list[j].object.renderOrder
           \/ /\ list[i].object.renderOrder = list[j].object.renderOrder
              /\ list[i].object.id >= list[j].object.id

\* C25: the list returned by intersectObject / intersectObjects is ordered
\* from closest to furthest, with ties within the tolerance broken by
\* renderOrder and id, and the default comparator is a consistent order on
\* the hits that were found.
RaycastOrder ==
  raycaster.op # "none" =>
    /\ ClosestToFurthest(raycaster.intersects)
    /\ Consistent(raycaster.found)

\* C26: when a crossfade ends (fadeProgress becomes null), nextIndex is null,
\* currentIndex is the index that was requested, the requested splat is the
\* only splat in the scene and its opacity is 1; while a fade is in progress
\* nextIndex does not change and fadeProgress does not restart; and
\* currentIndex stays within 0 .. number of splats - 1.
CrossfadeCompletion ==
  [][/\ (IsSome(manager.fadeProgress) /\ ~IsSome(manager'.fadeProgress)) =>
          /\ manager'.nextIndex = None
          /\ manager'.currentIndex = Val(manager.nextIndex)
          /\ manager'.inScene = {Val(manager.nextIndex)}
          /\ manager'.opacity[Val(manager.nextIndex)] = OpacityDen
     /\ (IsSome(manager.fadeProgress) /\ IsSome(manager'.fadeProgress)) =>
          /\ manager'.nextIndex = manager.nextIndex
          /\ Val(manager'.fadeProgress) >= Val(manager.fadeProgress)
     /\ manager'.currentIndex \in 0..(SplatCount - 1)
    ]_vars
====
